---- MODULE Spec2Model ----
(***************************************************************************)
(* Model of the radio-browser skill (src/__init__.py).                     *)
(*                                                                         *)
(* Text is a sequence of one-character strings, so that lower-casing,      *)
(* substring tests, str.replace and the two regular expressions are        *)
(* computed character by character as Python computes them.  A handler or  *)
(* function call is one action; what it did is recorded in `calls`, the    *)
(* ordered log of the calls it made, and in `result`, its return value or  *)
(* the exception that left it.  The directory service, the audio daemon    *)
(* and the host's audio service are the environment: every answer they can *)
(* give is a nondeterministic choice.                                      *)
(***************************************************************************)
EXTENDS Integers, Sequences, FiniteSets, TLC

VARIABLES
    pc,              \* "idle": the host may dispatch; "done": a call has ended
    op,              \* which operation the last call was
    phrase,          \* the utterance / slot value the call was given
    data,            \* the data dict handed to CPS_start
    transcript,      \* the control-socket lines find_vlc was answered with
    timeout_at,      \* which readline of find_vlc timed out (0: none)
    is_playing,      \* audioservice.is_playing
    was_playing,     \* audioservice.is_playing when the call was entered
    matched_station, \* handle_intent's local of that name
    result,          \* how the call ended
    calls            \* the calls the operation made, in order

vars == <<pc, op, phrase, data, transcript, timeout_at, is_playing,
          was_playing, matched_station, result, calls>>

(***************************************************************************)
(* Bounds of the model.                                                    *)
(***************************************************************************)
MaxPieces == 3
MaxResults == 2
MaxLines == 4
MaxIndex == 1

(***************************************************************************)
(* Program constants.                                                      *)
(***************************************************************************)
NotFound == -1
IntentVolumeTenths == 6

(***************************************************************************)
(* Text.                                                                   *)
(***************************************************************************)
StrA == <<"a", " ">>
StrStation == <<" ", "s", "t", "a", "t", "i", "o", "n">>
Empty == <<>>

Digits == {"0", "1", "2", "3", "4", "5", "6", "7", "8", "9"}

NumberWords ==
    << <<"o","n","e">>, <<"t","w","o">>, <<"t","h","r","e","e">>,
       <<"f","o","u","r">>, <<"f","i","v","e">>, <<"s","i","x">>,
       <<"s","e","v","e","n">>, <<"e","i","g","h","t">>, <<"n","i","n","e">> >>

DigitChars == <<"1", "2", "3", "4", "5", "6", "7", "8", "9">>

Pieces ==
    { StrA, <<"A", " ">>, StrStation, <<"o","n","e">>, <<" ">>, <<"1">>,
      <<"f","m">> }

RECURSIVE Concat(_)
Concat(ps) == IF ps = <<>> THEN <<>> ELSE Head(ps) \o Concat(Tail(ps))

Phrases ==
    UNION { { Concat(ps) : ps \in [1..n -> Pieces] } : n \in 0..MaxPieces }

Urls == {"u1", "u2"}

Records == { [name |-> "st", url_resolved |-> u] : u \in Urls }

ResultLists == UNION { [1..n -> Records] : n \in 0..MaxResults }

\* str.lower, on the letters the phrases are made of
LowerChar(c) == IF c = "A" THEN "a" ELSE IF c = "S" THEN "s" ELSE c

Lower(s) == [i \in 1..Len(s) |-> LowerChar(s[i])]

\* pat occurs in s starting at position i
OccursAt(s, pat, i) ==
    /\ i >= 1
    /\ i + Len(pat) - 1 <= Len(s)
    /\ \A k \in 1..Len(pat) : s[i + k - 1] = pat[k]

\* Python's `pat in s`
Contains(s, pat) == \E i \in 1..(Len(s) + 1) : OccursAt(s, pat, i)

\* str.replace(old, new): every non-overlapping occurrence, left to right
RECURSIVE ReplaceFrom(_, _, _, _)
ReplaceFrom(s, old, new, i) ==
    IF i > Len(s) THEN <<>>
    ELSE IF OccursAt(s, old, i)
         THEN new \o ReplaceFrom(s, old, new, i + Len(old))
         ELSE <<s[i]>> \o ReplaceFrom(s, old, new, i + 1)

PyReplace(s, old, new) == ReplaceFrom(s, old, new, 1)

Min(S) == CHOOSE i \in S : \A j \in S : i <= j

\* s without the first occurrence of pat
RemoveFirst(s, pat) ==
    LET at == { i \in 1..Len(s) : OccursAt(s, pat, i) } IN
    IF at = {} THEN s
    ELSE SubSeq(s, 1, Min(at) - 1) \o SubSeq(s, Min(at) + Len(pat), Len(s))

\* \w of the regular expressions
IsWordChar(c) == c # " "

\* \b at the gap before position i of s
BoundaryBefore(s, i) ==
    LET left == IF i > 1 /\ i - 1 <= Len(s) THEN IsWordChar(s[i - 1]) ELSE FALSE
        right == IF i >= 1 /\ i <= Len(s) THEN IsWordChar(s[i]) ELSE FALSE
    IN left # right

\* re.search(" [0-9]+ ", s)
DigitRunFlanked(s) ==
    \E i \in 1..Len(s) : \E j \in (i + 2)..Len(s) :
        /\ s[i] = " "
        /\ s[j] = " "
        /\ \A k \in (i + 1)..(j - 1) : s[k] \in Digits

\* the alternative of numbers_regex that matches at position i (0: none)
NumberWordAt(s, i) ==
    LET hits == { w \in 1..Len(NumberWords) :
                    /\ OccursAt(s, NumberWords[w], i)
                    /\ BoundaryBefore(s, i)
                    /\ BoundaryBefore(s, i + Len(NumberWords[w])) }
    IN IF hits = {} THEN 0 ELSE CHOOSE w \in hits : \A v \in hits : w <= v

\* re.findall(numbers_regex, s): the words matched, left to right
RECURSIVE FindNumberWordsFrom(_, _)
FindNumberWordsFrom(s, i) ==
    IF i > Len(s) THEN <<>>
    ELSE LET w == NumberWordAt(s, i)
         IN IF w = 0 THEN FindNumberWordsFrom(s, i + 1)
            ELSE <<w>> \o FindNumberWordsFrom(s, i + Len(NumberWords[w]))

FindNumberWords(s) == FindNumberWordsFrom(s, 1)

\* re.search(numbers_regex, s)
HasNumberWord(s) == FindNumberWords(s) # <<>>

\* the loop of lines 97-98: replace each found word by str(word_to_num(word))
RECURSIVE WordsToDigits(_, _)
WordsToDigits(s, num) ==
    IF num = <<>> THEN s
    ELSE WordsToDigits(
             PyReplace(s, NumberWords[Head(num)], <<DigitChars[Head(num)]>>),
             Tail(num))

(***************************************************************************)
(* Results and the call log.                                               *)
(***************************************************************************)
Tuple(p, u) == [kind |-> "tuple", phrase |-> p, level |-> "EXACT", url |-> u]
None == [kind |-> "none"]
Raise(e) == [kind |-> "raise", exc |-> e]
Returned(n) == [kind |-> "int", value |-> n]
Unset == [kind |-> "unset"]

EvEnter(fn, p) == [call |-> fn, arg |-> p]
EvCtor(ok) == [call |-> "RadioBrowser", ok |-> ok]
EvLogException == [call |-> "LOG.exception"]
EvSearch(by, arg, order, ok, ret) ==
    [call |-> "search", by |-> by, arg |-> arg, order |-> order,
     ok |-> ok, ret |-> ret]

\* json.loads(json.dumps(results)): the same records, rebuilt field by field
JsonRoundTrip(results) ==
    [i \in 1..Len(results) |->
        [name |-> results[i].name, url_resolved |-> results[i].url_resolved]]

(***************************************************************************)
(* The directory-service client, as both resolvers use it.                 *)
(***************************************************************************)
\* as directory_search, but with the search inside the try block too
directory_search_swallows_all(by, arg, order) ==
    { [calls |-> <<EvCtor(FALSE), EvLogException>>,
       exc |-> "UnboundLocalError", parsed |-> <<>>] }
    \cup
    { [calls |-> <<EvCtor(TRUE), EvSearch(by, arg, order, FALSE, <<>>),
                   EvLogException>>,
       exc |-> "UnboundLocalError", parsed |-> <<>>] }
    \cup
    { [calls |-> <<EvCtor(TRUE), EvSearch(by, arg, order, TRUE, results)>>,
       exc |-> "", parsed |-> JsonRoundTrip(results)] : results \in ResultLists }

\* Lines 74-80 (and 117-123): construct the client inside try/except, then
\* search and parse outside it.  exc = "" when the parsed list was obtained.
directory_search(by, arg, order) ==
    { [calls |-> <<EvCtor(FALSE), EvLogException>>,
       exc |-> "UnboundLocalError", parsed |-> <<>>] }
    \cup
    { [calls |-> <<EvCtor(TRUE), EvSearch(by, arg, order, FALSE, <<>>)>>,
       exc |-> "RequestException", parsed |-> <<>>] }
    \cup
    { [calls |-> <<EvCtor(TRUE), EvSearch(by, arg, order, TRUE, results)>>,
       exc |-> "", parsed |-> JsonRoundTrip(results)] : results \in ResultLists }

\* as MatchTuple, but taking the last record
MatchTuple_last(p, parsed) == Tuple(p, parsed[Len(parsed)].url_resolved)

\* the tuple of lines 85 and 127
MatchTuple(p, parsed) == Tuple(p, parsed[1].url_resolved)

\* re.findall("[0-9]+", s)[0]: the first maximal run of digits
FirstDigitRun(s) ==
    LET starts == { i \in 1..Len(s) : s[i] \in Digits }
        b == CHOOSE i \in starts : \A j \in starts : i <= j
        ends == { e \in b..Len(s) :
                    /\ \A k \in b..e : s[k] \in Digits
                    /\ (e = Len(s) \/ s[e + 1] \notin Digits) }
        e == CHOOSE x \in ends : TRUE
    IN SubSeq(s, b, e)

\* the word_to_num calls of the loop of lines 97-98
WordToNumCalls(num) ==
    [i \in 1..Len(num) |-> [call |-> "word_to_num", arg |-> NumberWords[num[i]]]]

(***************************************************************************)
(* Station Resolver, lines 63-101.  The value is the set of ways the call  *)
(* can end: its result and the calls it made.                              *)
(***************************************************************************)
RECURSIVE match_station_name(_)
match_station_name(p) ==
    LET enter == <<EvEnter("match_station_name", p)>>
        After(a) ==
            LET c == enter \o a.calls IN
            IF a.exc # "" THEN { [result |-> Raise(a.exc), calls |-> c] }
            ELSE IF Len(a.parsed) > 0
            THEN { [result |-> MatchTuple(p, a.parsed), calls |-> c] }
            ELSE IF DigitRunFlanked(p)
            THEN \* line 92: str.replace is handed the list num
                 { [result |-> Raise("TypeError"),
                    calls |-> c \o <<[call |-> "number_to_words",
                                      arg |-> FirstDigitRun(p)]>>] }
            ELSE IF HasNumberWord(p)
            THEN LET num == FindNumberWords(p)
                     c2 == c \o WordToNumCalls(num)
                 IN { [result |-> IF o.result.kind = "raise"
                                  THEN o.result ELSE None,
                       calls |-> c2 \o o.calls]
                      : o \in match_station_name(WordsToDigits(p, num)) }
            ELSE { [result |-> None, calls |-> c] }
    IN UNION { After(a) : a \in directory_search("name", p, "none") }

\* as stripped_phrase, but removing only the first occurrence of each
stripped_phrase_first(p) ==
    RemoveFirst(RemoveFirst(Lower(p), StrA), StrStation)

\* line 116
stripped_phrase(p) ==
    PyReplace(PyReplace(Lower(p), StrA, Empty), StrStation, Empty)

\* as match_genre, but returning what the fallback returned
match_genre_propagates(p) ==
    LET enter == <<EvEnter("match_genre", p)>>
        After(a) ==
            LET c == enter \o a.calls IN
            IF a.exc # "" THEN { [result |-> Raise(a.exc), calls |-> c] }
            ELSE IF Len(a.parsed) > 0
            THEN { [result |-> MatchTuple(p, a.parsed), calls |-> c] }
            ELSE { [result |-> o.result, calls |-> c \o o.calls]
                   : o \in match_station_name(p) }
    IN UNION { After(a) : a \in directory_search("tag", stripped_phrase(p), "votes") }

(***************************************************************************)
(* Genre Resolver, lines 104-129.                                          *)
(***************************************************************************)
match_genre(p) ==
    LET enter == <<EvEnter("match_genre", p)>>
        After(a) ==
            LET c == enter \o a.calls IN
            IF a.exc # "" THEN { [result |-> Raise(a.exc), calls |-> c] }
            ELSE IF Len(a.parsed) > 0
            THEN { [result |-> MatchTuple(p, a.parsed), calls |-> c] }
            ELSE { [result |-> IF o.result.kind = "raise"
                               THEN o.result ELSE None,
                    calls |-> c \o o.calls]
                   : o \in match_station_name(p) }
    IN UNION { After(a) : a \in directory_search("tag", stripped_phrase(p), "votes") }

(***************************************************************************)
(* Volume sideband.                                                        *)
(***************************************************************************)
\* A line of the daemon's answer, by what the scan asks of it:
\*   index: "index" in line        nums: re.findall(r'index: (\d+)', line)
\*   app:   "application.name" in line              vlc: "VLC" in line
Line(index, nums, app, vlc) ==
    [index |-> index, nums |-> nums, app |-> app, vlc |-> vlc]

OtherLine == Line(FALSE, <<>>, FALSE, FALSE)
IndexLine(n) == Line(TRUE, <<n>>, FALSE, FALSE)
BadIndexLine == Line(TRUE, <<>>, FALSE, FALSE)
AppVlcLine == Line(FALSE, <<>>, TRUE, TRUE)
AppOtherLine == Line(FALSE, <<>>, TRUE, FALSE)
VlcOtherLine == Line(FALSE, <<>>, FALSE, TRUE)

Lines ==
    { OtherLine, BadIndexLine, AppVlcLine, AppOtherLine, VlcOtherLine }
    \cup { IndexLine(n) : n \in 0..MaxIndex }

Transcripts == UNION { [1..n -> Lines] : n \in 0..MaxLines }

Timeouts == 0..(MaxLines + 1)

\* The loop of lines 27-39 after k reads, the k-th having returned a line.
\* The t-th readline raises socket.timeout; a read past the end returns "".
RECURSIVE ScanLoop(_, _, _, _)
ScanLoop(tr, t, k, index_id) ==
    LET n == k + 1 IN
    IF t = n THEN Returned(NotFound)
    ELSE IF n > Len(tr) THEN Returned(NotFound)
    ELSE LET line == tr[n] IN
         IF line.index /\ line.nums = <<>> THEN Raise("IndexError")
         ELSE LET idx == IF line.index THEN line.nums[1] ELSE index_id IN
              IF idx > -1 /\ line.app /\ line.vlc
              THEN Returned(idx)
              ELSE ScanLoop(tr, t, n, idx)

\* lines 16-44
find_vlc(tr, t) ==
    IF t = 1 THEN Raise("socket.timeout")
    ELSE IF Len(tr) = 0 THEN Returned(NotFound)
    ELSE ScanLoop(tr, t, 1, NotFound)

\* every way a find_vlc call can end
VlcOutcomes == { find_vlc(tr, t) : tr \in Transcripts, t \in Timeouts }

\* lines 46-61: the daemon may refuse the sink
set_volume(sink_input, vol) ==
    LET c == <<[call |-> "set_volume", sink |-> sink_input, vol |-> vol]>>
    IN { [result |-> None, calls |-> c],
         [result |-> Raise("PulseError"), calls |-> c] }

(***************************************************************************)
(* Playback Bridge and intent handlers, lines 132-171.                     *)
(***************************************************************************)
\* as GenreFirstTest, but testing both substrings
GenreFirstTest_both(search_phrase) ==
    Contains(search_phrase, StrA) /\ Contains(search_phrase, StrStation)

\* line 139: `"a " and " station" in search_phrase`
GenreFirstTest(search_phrase) ==
    IF Len(StrA) = 0 THEN FALSE ELSE Contains(search_phrase, StrStation)

\* lines 136-142
CPS_match_query_phrase(p) ==
    LET search_phrase == Lower(p)
        enter == <<EvEnter("CPS_match_query_phrase", p)>>
        inner == IF GenreFirstTest(search_phrase)
                 THEN match_genre(search_phrase)
                 ELSE match_station_name(p)
    IN { [result |-> o.result, calls |-> enter \o o.calls] : o \in inner }

Datas == { [url |-> u] : u \in Urls } \cup { [name |-> "st"] }

\* as CPS_start, but stopping whether or not something is playing
CPS_start_always_stops(d, playing) ==
    LET c == <<[call |-> "stop"]>> IN
    IF "url" \in DOMAIN d
    THEN [result |-> None,
          calls |-> c \o <<[call |-> "play", url |-> d.url]>>,
          playing |-> TRUE]
    ELSE [result |-> Raise("KeyError"), calls |-> c, playing |-> FALSE]

\* lines 144-149
CPS_start(d, playing) ==
    LET c == IF playing THEN <<[call |-> "stop"]>> ELSE <<>> IN
    IF "url" \in DOMAIN d
    THEN [result |-> None,
          calls |-> c \o <<[call |-> "play", url |-> d.url]>>,
          playing |-> TRUE]
    ELSE [result |-> Raise("KeyError"), calls |-> c, playing |-> FALSE]

\* lines 151-158; the value is the set of ways the handler can end
handle_intent(value, playing) ==
    LET Sideband(c) ==
            UNION { IF v.kind = "raise"
                    THEN { [result |-> v,
                            calls |-> c \o <<[call |-> "find_vlc",
                                              ok |-> FALSE, ret |-> NotFound]>>] }
                    ELSE { [result |-> s.result,
                            calls |-> c \o <<[call |-> "find_vlc",
                                              ok |-> TRUE, ret |-> v.value]>>
                                       \o s.calls]
                           : s \in set_volume(v.value, IntentVolumeTenths) }
                    : v \in VlcOutcomes }
        After(o) ==
            IF o.result.kind = "raise"
            THEN { [matched |-> Unset, result |-> o.result,
                    calls |-> o.calls, playing |-> playing] }
            ELSE IF o.result.kind = "none"
            THEN \* line 154 subscripts None
                 { [matched |-> o.result, result |-> Raise("TypeError"),
                    calls |-> o.calls, playing |-> playing] }
            ELSE { [matched |-> o.result, result |-> s.result,
                    calls |-> s.calls, playing |-> TRUE]
                   : s \in Sideband(o.calls \o <<[call |-> "CPS_play",
                                                   url |-> o.result.url]>>) }
    IN UNION { After(o) : o \in match_station_name(value) }

(***************************************************************************)
(* The state machine: the host dispatches one call at a time.              *)
(***************************************************************************)
Init ==
    /\ pc = "idle"
    /\ op = "none"
    /\ phrase = <<>>
    /\ data = <<>>
    /\ transcript = <<>>
    /\ timeout_at = 0
    /\ is_playing \in BOOLEAN
    /\ was_playing = FALSE
    /\ matched_station = Unset
    /\ result = Unset
    /\ calls = <<>>

\* a call of operation o has ended
Ended(o, p, r, c, playing) ==
    /\ pc' = "done"
    /\ op' = o
    /\ phrase' = p
    /\ was_playing' = is_playing
    /\ result' = r
    /\ calls' = c
    /\ is_playing' = playing

Invoke_match_station_name ==
    /\ pc = "idle"
    /\ \E p \in Phrases : \E o \in match_station_name(p) :
        /\ Ended("match_station_name", p, o.result, o.calls, is_playing)
        /\ UNCHANGED <<data, transcript, timeout_at, matched_station>>

Invoke_match_genre ==
    /\ pc = "idle"
    /\ \E p \in Phrases : \E o \in match_genre(p) :
        /\ Ended("match_genre", p, o.result, o.calls, is_playing)
        /\ UNCHANGED <<data, transcript, timeout_at, matched_station>>

Invoke_CPS_match_query_phrase ==
    /\ pc = "idle"
    /\ \E p \in Phrases : \E o \in CPS_match_query_phrase(p) :
        /\ Ended("CPS_match_query_phrase", p, o.result, o.calls, is_playing)
        /\ UNCHANGED <<data, transcript, timeout_at, matched_station>>

Invoke_CPS_start ==
    /\ pc = "idle"
    /\ \E d \in Datas :
        LET o == CPS_start(d, is_playing) IN
        /\ Ended("CPS_start", <<>>, o.result, o.calls, o.playing)
        /\ data' = d
        /\ UNCHANGED <<transcript, timeout_at, matched_station>>

handle_radio_station ==
    /\ pc = "idle"
    /\ \E p \in Phrases : \E o \in handle_intent(p, is_playing) :
        /\ Ended("handle_radio_station", p, o.result, o.calls, o.playing)
        /\ matched_station' = o.matched
        /\ UNCHANGED <<data, transcript, timeout_at>>

handle_radio_genre ==
    /\ pc = "idle"
    /\ \E p \in Phrases : \E o \in handle_intent(p, is_playing) :
        /\ Ended("handle_radio_genre", p, o.result, o.calls, o.playing)
        /\ matched_station' = o.matched
        /\ UNCHANGED <<data, transcript, timeout_at>>

Invoke_find_vlc ==
    /\ pc = "idle"
    /\ \E tr \in Transcripts : \E t \in Timeouts :
        /\ Ended("find_vlc", <<>>, find_vlc(tr, t), <<>>, is_playing)
        /\ transcript' = tr
        /\ timeout_at' = t
        /\ UNCHANGED <<data, matched_station>>

\* the call returns to the host; nothing of it is kept but the audio state
HandlerReturn ==
    /\ pc = "done"
    /\ pc' = "idle"
    /\ op' = "none"
    /\ phrase' = <<>>
    /\ data' = <<>>
    /\ transcript' = <<>>
    /\ timeout_at' = 0
    /\ was_playing' = FALSE
    /\ matched_station' = Unset
    /\ result' = Unset
    /\ calls' = <<>>
    /\ UNCHANGED is_playing

Next ==
    \/ Invoke_match_station_name
    \/ Invoke_match_genre
    \/ Invoke_CPS_match_query_phrase
    \/ Invoke_CPS_start
    \/ handle_radio_station
    \/ handle_radio_genre
    \/ Invoke_find_vlc
    \/ HandlerReturn

Spec == Init /\ [][Next]_vars

(***************************************************************************)
(* Reading the call log.                                                   *)
(***************************************************************************)
Done(o) == pc = "done" /\ op = o

ResolverCall == pc = "done" /\ op \in {"match_station_name", "match_genre"}

IntentCall == pc = "done" /\ op \in {"handle_radio_station", "handle_radio_genre"}

CallsOf(name) == { i \in DOMAIN calls : calls[i].call = name }

Searched == CallsOf("search") # {}

FirstSearch == calls[Min(CallsOf("search"))]

\* the first search of the call was answered, with at least one record
FirstSearchFound == Searched /\ FirstSearch.ok /\ Len(FirstSearch.ret) > 0

\* the first search of the call was answered with no record
FirstSearchEmpty == Searched /\ FirstSearch.ok /\ Len(FirstSearch.ret) = 0

ClientFailedAt(i) ==
    /\ calls[i].call \in {"RadioBrowser", "search"}
    /\ ~calls[i].ok

Transformed == CallsOf("number_to_words") \cup CallsOf("word_to_num") # {}

\* where the occurrences of pat taken left to right, without overlap, start
RECURSIVE OccurrenceStarts(_, _, _)
OccurrenceStarts(s, pat, i) ==
    IF i > Len(s) THEN {}
    ELSE IF OccursAt(s, pat, i)
         THEN {i} \cup OccurrenceStarts(s, pat, i + Len(pat))
         ELSE OccurrenceStarts(s, pat, i + 1)

\* s without every such occurrence: the characters no occurrence covers
RemoveAll(s, pat) ==
    LET starts == OccurrenceStarts(s, pat, 1)
        kept == { k \in 1..Len(s) :
                    \A b \in starts : k < b \/ k >= b + Len(pat) }
        \* the j-th kept position
        Nth(j) == CHOOSE k \in kept :
                     Cardinality({ m \in kept : m < k }) = j - 1
    IN [j \in 1..Cardinality(kept) |-> s[Nth(j)]]

(***************************************************************************)
(* C1.  match_station_name: when the name search for the phrase returns at *)
(* least one record, the call returns (the phrase as passed, EXACT,        *)
(* {url: url_resolved of the first record}), after exactly one search, by  *)
(* name, for the phrase itself, and without any digit/word transformation. *)
(***************************************************************************)
C1_FirstRecordExact ==
    (Done("match_station_name") /\ FirstSearchFound) =>
        /\ result.kind = "tuple"
        /\ result.phrase = phrase
        /\ result.level = "EXACT"
        /\ result.url = FirstSearch.ret[1].url_resolved
        /\ Cardinality(CallsOf("search")) = 1
        /\ FirstSearch.by = "name"
        /\ FirstSearch.arg = phrase
        /\ ~Transformed

\* a phrase with a number word, found at once, among two different records
C1_Witness ==
    /\ Done("match_station_name")
    /\ FirstSearchFound
    /\ HasNumberWord(phrase)
    /\ Len(FirstSearch.ret) = 2
    /\ FirstSearch.ret[1] # FirstSearch.ret[2]
    /\ result.kind = "tuple"

(***************************************************************************)
(* C2.  CPS_start with data carrying a url: play is invoked exactly once,  *)
(* with that url; if is_playing was true at entry, stop is invoked exactly *)
(* once and before play; if it was false, stop is not invoked.             *)
(***************************************************************************)
C2_StopThenPlay ==
    (Done("CPS_start") /\ "url" \in DOMAIN data) =>
        /\ Cardinality(CallsOf("play")) = 1
        /\ \A i \in CallsOf("play") : calls[i].url = data.url
        /\ was_playing =>
              /\ Cardinality(CallsOf("stop")) = 1
              /\ \A i \in CallsOf("stop") : \A j \in CallsOf("play") : i < j
        /\ ~was_playing => CallsOf("stop") = {}

C2_Witness ==
    /\ Done("CPS_start")
    /\ "url" \in DOMAIN data
    /\ was_playing
    /\ Len(calls) = 2

(***************************************************************************)
(* C3 as stated.  CPS_match_query_phrase: for every non-empty phrase the   *)
(* genre-first test is true, so the call dispatches to match_genre and     *)
(* never directly to match_station_name.                                   *)
(***************************************************************************)
C3_AlwaysGenre ==
    (Done("CPS_match_query_phrase") /\ phrase # <<>>) =>
        calls[2].call = "match_genre"

(***************************************************************************)
(* C3 amended.  The genre-first test is true exactly when the lower-cased  *)
(* phrase contains " station": then the call dispatches to match_genre     *)
(* with the lower-cased phrase, otherwise directly to match_station_name   *)
(* with the phrase as given.                                               *)
(***************************************************************************)
C3_GenreIffStation ==
    Done("CPS_match_query_phrase") =>
        IF Contains(Lower(phrase), StrStation)
        THEN calls[2] = EvEnter("match_genre", Lower(phrase))
        ELSE calls[2] = EvEnter("match_station_name", phrase)

\* " station" without "a " goes to match_genre
C3_Witness ==
    /\ Done("CPS_match_query_phrase")
    /\ Contains(Lower(phrase), StrStation)
    /\ ~Contains(Lower(phrase), StrA)
    /\ calls[2].call = "match_genre"

\* the tag search a match_genre call entered at position i of the log made
TagSearchOf(i) == calls[i + 2]

GenreSearches ==
    { i \in CallsOf("match_genre") :
        i + 2 <= Len(calls) /\ calls[i + 2].call = "search" }

(***************************************************************************)
(* C4 as stated.  match_genre: the tag searched for is the lower-cased     *)
(* phrase with only the first "a " and then only the first " station"      *)
(* removed, and the search is ordered by votes.                            *)
(***************************************************************************)
C4_FirstOccurrenceOnly ==
    pc = "done" =>
        \A i \in GenreSearches :
            /\ TagSearchOf(i).by = "tag"
            /\ TagSearchOf(i).order = "votes"
            /\ TagSearchOf(i).arg =
                  RemoveFirst(RemoveFirst(Lower(calls[i].arg), StrA), StrStation)

(***************************************************************************)
(* C4 amended.  match_genre: the tag searched for is the lower-cased       *)
(* phrase with every occurrence of "a " removed and then every occurrence  *)
(* of " station" removed (substring-based, not whole-word), and the search *)
(* is ordered by votes.                                                    *)
(***************************************************************************)
C4_EveryOccurrence ==
    pc = "done" =>
        \A i \in GenreSearches :
            /\ TagSearchOf(i).by = "tag"
            /\ TagSearchOf(i).order = "votes"
            /\ TagSearchOf(i).arg =
                  RemoveAll(RemoveAll(Lower(calls[i].arg), StrA), StrStation)

\* a phrase in which "a " occurs more than once, one of them in upper case
C4_Witness ==
    /\ Done("match_genre")
    /\ Searched
    /\ Cardinality(OccurrenceStarts(Lower(phrase), StrA, 1)) >= 2
    /\ Contains(phrase, <<"A", " ">>)
    /\ ~Contains(FirstSearch.arg, StrA)

(***************************************************************************)
(* C5.  Every playback start, through CPS_start or through an intent       *)
(* handler, is followed by find_vlc and then set_volume with the           *)
(* identifier find_vlc returned and the fraction 0.6; set_volume is never  *)
(* invoked before playback start was requested.  (Calls in which the       *)
(* sideband itself failed are left aside.)                                 *)
(***************************************************************************)
C5_SidebandAfterEveryStart ==
    (/\ pc = "done"
     /\ op \in {"CPS_start", "handle_radio_station", "handle_radio_genre"}
     /\ result.kind # "raise") =>
        /\ \A i \in CallsOf("play") \cup CallsOf("CPS_play") :
              /\ i + 2 <= Len(calls)
              /\ calls[i + 1].call = "find_vlc"
              /\ calls[i + 2].call = "set_volume"
              /\ calls[i + 2].sink = calls[i + 1].ret
              /\ calls[i + 2].vol = IntentVolumeTenths
        /\ \A j \in CallsOf("set_volume") :
              \E i \in CallsOf("play") \cup CallsOf("CPS_play") : i < j

(***************************************************************************)
(* C6.  Intent handlers: when the Station Resolver finds no station, the   *)
(* handler requests no playback, calls neither find_vlc nor set_volume,    *)
(* and completes without raising.                                          *)
(***************************************************************************)
C6_AbsenceIsNotAnError ==
    (IntentCall /\ matched_station = None) =>
        /\ CallsOf("CPS_play") = {}
        /\ CallsOf("find_vlc") = {}
        /\ CallsOf("set_volume") = {}
        /\ result.kind # "raise"

(***************************************************************************)
(* C7.  A top-level call of a resolver returns a resolved tuple if and     *)
(* only if its own first search returned at least one record; what a       *)
(* fallback search finds never reaches the caller.                         *)
(***************************************************************************)
C7_OnlyOwnSearchResolves ==
    ResolverCall => (result.kind = "tuple" <=> FirstSearchFound)

\* match_genre: empty tag search, the fallback name search finds a station
C7_Witness ==
    /\ Done("match_genre")
    /\ FirstSearchEmpty
    /\ \E i \in CallsOf("search") :
          calls[i].by = "name" /\ calls[i].ok /\ Len(calls[i].ret) > 0
    /\ result = None

(***************************************************************************)
(* C8.  match_station_name: for a phrase whose name search is empty and    *)
(* which has a space-flanked digit run or a whole-word number word, the    *)
(* call ends with "no match" and raises no error, whatever the directory   *)
(* service returns to the retried searches.  (Calls in which the directory *)
(* client itself failed are left aside.)                                   *)
(***************************************************************************)
C8_FallbackEndsSilently ==
    (/\ Done("match_station_name")
     /\ FirstSearchEmpty
     /\ DigitRunFlanked(phrase) \/ HasNumberWord(phrase)
     /\ \A i \in DOMAIN calls : ~ClientFailedAt(i)) =>
        result = None

(***************************************************************************)
(* C9 as stated.  In both resolvers every exception of the directory       *)
(* client, from the constructor or from the search, is logged and          *)
(* swallowed where it occurs, and the call then ends in an                 *)
(* unbound-reference failure.                                              *)
(***************************************************************************)
C9_EveryClientExceptionSwallowed ==
    ResolverCall =>
        \A i \in DOMAIN calls :
            ClientFailedAt(i) =>
                /\ i < Len(calls)
                /\ calls[i + 1].call = "LOG.exception"
                /\ result = Raise("UnboundLocalError")

(***************************************************************************)
(* C9 amended.  In both resolvers an exception raised while constructing   *)
(* the client is logged and swallowed, and the call then ends in an        *)
(* unbound-reference failure; an exception raised by the search is not     *)
(* caught: nothing is logged and it leaves the call as raised.             *)
(***************************************************************************)
C9_OnlyConstructionSwallowed ==
    ResolverCall =>
        \A i \in DOMAIN calls :
            ClientFailedAt(i) =>
                IF calls[i].call = "RadioBrowser"
                THEN /\ i < Len(calls)
                     /\ calls[i + 1].call = "LOG.exception"
                     /\ result = Raise("UnboundLocalError")
                ELSE /\ i = Len(calls)
                     /\ CallsOf("LOG.exception") = {}
                     /\ result = Raise("RequestException")

\* a fallback search fails inside match_genre
C9_Witness ==
    /\ Done("match_genre")
    /\ FirstSearchEmpty
    /\ \E i \in CallsOf("search") : ~calls[i].ok
    /\ result = Raise("RequestException")

\* a transcript made of sink blocks: an index line, then property lines
IsBlockTranscript(tr) ==
    /\ Len(tr) >= 1
    /\ tr[1].index
    /\ \A k \in 1..Len(tr) : tr[k].index => tr[k].nums # <<>>

\* the index the claim names: that of the first block with a VLC
\* application.name line, if the reads got that far; otherwise -1
ClaimedIndex(tr, t) ==
    LET hits == { m \in 1..Len(tr) :
                    /\ tr[m].app /\ tr[m].vlc
                    /\ \E j \in 1..(m - 1) : tr[j].index
                    /\ (t = 0 \/ t > m) }
    IN IF hits = {} THEN NotFound
       ELSE LET m == Min(hits)
                j == CHOOSE x \in 1..(m - 1) :
                        /\ tr[x].index
                        /\ \A y \in (x + 1)..(m - 1) : ~tr[y].index
            IN tr[j].nums[1]

(***************************************************************************)
(* C10.  find_vlc: for a transcript made of sink blocks, the value         *)
(* returned is the index of the first block with an application.name line  *)
(* containing "VLC"; it is -1 when no block matches or when the read times *)
(* out before the match.                                                   *)
(***************************************************************************)
C10_FirstVlcBlockIndex ==
    (Done("find_vlc") /\ IsBlockTranscript(transcript)) =>
        result = Returned(ClaimedIndex(transcript, timeout_at))

====
